---------------------------- MODULE Spec2Model ----------------------------
(***************************************************************************)
(* The holiday maximizer script app.py as a state machine.                 *)
(*                                                                         *)
(* One run of the script is the sequence of its sections, top to bottom:   *)
(* sidebar widgets, dataset check, load_and_process_data,                  *)
(* get_global_rankings, the global results, the bridge section, the        *)
(* personalized search, the efficiency map and the timeline view.  A run   *)
(* ends at the last line, at st.stop(), or at the first uncaught           *)
(* exception; any widget interaction then runs the script again from the   *)
(* top in a fresh namespace.                                               *)
(*                                                                         *)
(* Dates are day numbers: date 0 is Thursday 2026-01-29, so date 2 is      *)
(* Saturday 2026-01-31 and date 3 is Sunday 2026-02-01.  Data frames are   *)
(* 1-based sequences of rows; Python's df.iloc[i] is df[i + 1] here.       *)
(***************************************************************************)
EXTENDS Integers, Sequences, FiniteSets, TLC

\* Bounds of the model.
MaxRows == 2      \* rows of the holiday CSV
MaxDate == 6      \* the CSV's dates lie in 0..MaxDate
MaxBudget == 2    \* the PTO slider ranges over 0..MaxBudget

VARIABLES
    pc,           \* the section of the script the run is at
    rows,         \* the (date, holiday) rows of the year's CSV file
    include_rh,   \* sidebar checkbox
    annual_pto,   \* sidebar slider
    data,         \* the calendar returned by load_and_process_data
    options,      \* the frame returned by get_global_rankings
    bridges,      \* options[options["Bridge Opportunity"]]
    matches,      \* the personalized search's result
    names,        \* the module-level names the run has assigned so far
    err,          \* the uncaught exception that ended the run, or "none"
    messages      \* what the run has reported through st.* so far

vars == <<pc, rows, include_rh, annual_pto, data, options, bridges, matches,
          names, err, messages>>

-----------------------------------------------------------------------------
(* The CSV and the calendar. *)

\* Holiday labels of the CSV; the second carries the restricted marker.
Labels == {"Holi", "Id (RH)"}

RawRow == [date : 0..MaxDate, holiday : Labels]

RawRows == UNION {[1..n -> RawRow] : n \in 0..MaxRows}

\* Series.dt.weekday: Monday is 0; date 0 is a Thursday.
weekday(d) == (d + 3) % 7

\* Series.dt.strftime("%B"): dates 0..2 are 29-31 January, dates 3..30 are February.
month(d) == IF d <= 2 THEN "January" ELSE "February"

\* str.contains(r"\(RH\)", regex=True)
is_restricted(label) == label \in {"Id (RH)"}

SeqMin(s) == CHOOSE d \in {s[k].date : k \in 1..Len(s)} :
                 \A e \in {s[k].date : k \in 1..Len(s)} : d <= e

SeqMax(s) == CHOOSE d \in {s[k].date : k \in 1..Len(s)} :
                 \A e \in {s[k].date : k \in 1..Len(s)} : d >= e

\* pd.date_range(lo, hi): every date of [lo, hi], ascending.
date_range(lo, hi) == [k \in 1..(hi - lo + 1) |-> lo + k - 1]

\* The holiday column of calendar.merge(df, on="date", how="left") for one
\* calendar date: one entry per CSV row with that date, in the CSV's order, or
\* a single missing value filled with "Working Day".
MergedHolidays(df, d) ==
    LET hit == SelectSeq(df, LAMBDA r : r.date = d)
    IN  IF hit = <<>> THEN <<"Working Day">>
        ELSE [k \in 1..Len(hit) |-> hit[k].holiday]

DayRow(d, label, inc_rh) ==
    LET is_weekend == weekday(d) \in {5, 6}
        is_holiday == IF inc_rh THEN label # "Working Day"
                      ELSE label # "Working Day" /\ ~is_restricted(label)
    IN  [date |-> d,
         is_weekend |-> is_weekend,
         holiday |-> label,
         is_restricted |-> is_restricted(label),
         is_holiday |-> is_holiday,
         is_free |-> is_weekend \/ is_holiday,
         month |-> month(d)]

RECURSIVE MergeLeft(_, _, _, _)
MergeLeft(all_dates, k, df, inc_rh) ==
    IF k > Len(all_dates) THEN <<>>
    ELSE LET hs == MergedHolidays(df, all_dates[k])
         IN  [m \in 1..Len(hs) |-> DayRow(all_dates[k], hs[m], inc_rh)]
             \o MergeLeft(all_dates, k + 1, df, inc_rh)

load_and_process_data(csv, inc_rh) ==
    MergeLeft(date_range(SeqMin(csv), SeqMax(csv)), 1, csv, inc_rh)

-----------------------------------------------------------------------------
(* get_global_rankings. *)

\* (~window["is_free"]).sum() for window = df.iloc[i:j + 1]
pto_needed(df, i, j) == Cardinality({k \in i..j : ~df[k].is_free})

\* window["is_holiday"].sum() for window = df.iloc[i:j + 1]
holiday_sum(df, i, j) == Cardinality({k \in i..j : df[k].is_holiday})

BreakInnerOffByOne(df, i, j, pto_limit) == pto_needed(df, i, j) > pto_limit + 1

BreakInnerNotEqual(df, i, j, pto_limit) == pto_needed(df, i, j) # pto_limit

BreakInnerAtWorkday(df, i, j, pto_limit) == ~df[j].is_free

\* if pto_needed > pto_limit: break
BreakInner(df, i, j, pto_limit) == pto_needed(df, i, j) > pto_limit

SkipOnlyBelowTwo(df, i, j) ==
    /\ j - i + 1 < 2
    /\ pto_needed(df, i, j) = 0
    /\ holiday_sum(df, i, j) = 0

\* if duration <= 2 and pto_needed == 0 and window["is_holiday"].sum() == 0: continue
SkipPlainWeekend(df, i, j) ==
    /\ j - i + 1 <= 2
    /\ pto_needed(df, i, j) = 0
    /\ holiday_sum(df, i, j) = 0

\* float("inf") if pto_needed == 0 else duration / pto_needed.  A float is kept
\* as the fraction <<numerator, denominator>>, infinity as <<1, 0>>; the
\* quotients of two day counts below 2^53 compare as the fractions do.
efficiency(duration, pto) == IF pto = 0 THEN <<1, 0>> ELSE <<duration, pto>>

EffIsInf(e) == e[2] = 0

EffGreater(a, b) ==
    IF EffIsInf(a) THEN ~EffIsInf(b)
    ELSE ~EffIsInf(b) /\ a[1] * b[2] > b[1] * a[2]

EffEqual(a, b) ==
    IF EffIsInf(a) THEN EffIsInf(b)
    ELSE ~EffIsInf(b) /\ a[1] * b[2] = b[1] * a[2]

\* is_bridge = (pto_needed == 1 and duration >= 4)
is_bridge(pto, duration) == pto = 1 /\ duration >= 4

\* The dict appended to results for the window df.iloc[i:j + 1].
WindowRecord(df, i, j) ==
    LET duration == j - i + 1
        pto == pto_needed(df, i, j)
    IN  ("Start Date" :> df[i].date) @@
        ("End Date" :> df[j].date) @@
        ("Duration" :> duration) @@
        ("PTO Cost" :> pto) @@
        ("Efficiency" :> efficiency(duration, pto)) @@
        ("Bridge Opportunity" :> is_bridge(pto, duration)) @@
        ("Month" :> df[i].month)

\* for j in range(i + 1, n): ...
RECURSIVE InnerLoop(_, _, _, _, _)
InnerLoop(df, i, j, pto_limit, results) ==
    IF j > Len(df) THEN results
    ELSE IF BreakInner(df, i, j, pto_limit) THEN results
    ELSE IF df[j].is_free /\ ~SkipPlainWeekend(df, i, j)
         THEN InnerLoop(df, i, j + 1, pto_limit, Append(results, WindowRecord(df, i, j)))
         ELSE InnerLoop(df, i, j + 1, pto_limit, results)

\* for i in range(n): if not df.iloc[i]["is_free"]: continue ...
RECURSIVE OuterLoop(_, _, _, _)
OuterLoop(df, i, pto_limit, results) ==
    IF i > Len(df) THEN results
    ELSE IF ~df[i].is_free THEN OuterLoop(df, i + 1, pto_limit, results)
    ELSE OuterLoop(df, i + 1, pto_limit, InnerLoop(df, i, i + 1, pto_limit, results))

\* Row a sorts before row b under by=["Efficiency", "Duration"], ascending=[False, False].
SortsBefore(a, b) ==
    \/ EffGreater(a["Efficiency"], b["Efficiency"])
    \/ /\ EffEqual(a["Efficiency"], b["Efficiency"])
       /\ a["Duration"] > b["Duration"]

\* w goes in front of the first row it sorts before: rows of equal keys keep
\* their order (the multi-column sort is a stable lexsort).
RECURSIVE InsertRow(_, _)
InsertRow(sorted, w) ==
    IF sorted = <<>> THEN <<w>>
    ELSE IF SortsBefore(w, Head(sorted)) THEN <<w>> \o sorted
    ELSE <<Head(sorted)>> \o InsertRow(Tail(sorted), w)

RECURSIVE SortFrom(_, _, _)
SortFrom(results, k, sorted) ==
    IF k > Len(results) THEN sorted
    ELSE SortFrom(results, k + 1, InsertRow(sorted, results[k]))

sort_values_unsorted(results) == results

RECURSIVE ReverseSeq(_)
ReverseSeq(s) == IF s = <<>> THEN <<>> ELSE ReverseSeq(Tail(s)) \o <<Head(s)>>

sort_values_ascending(results) == ReverseSeq(SortFrom(results, 1, <<>>))

\* results_df.sort_values(by=["Efficiency", "Duration"], ascending=[False, False])
sort_values(results) == SortFrom(results, 1, <<>>)

\* round(x, 2) of the float num / den, in hundredths (ties to even).
round2(num, den) ==
    LET q == (100 * num) \div den
        r == (100 * num) % den
    IN  IF 2 * r < den THEN q
        ELSE IF 2 * r > den THEN q + 1
        ELSE IF q % 2 = 0 THEN q ELSE q + 1

\* lambda x: "∞ (No PTO)" if x == float("inf") else round(x, 2)
efficiency_display(e) ==
    IF EffIsInf(e) THEN [no_pto |-> TRUE, hundredths |-> 0]
    ELSE [no_pto |-> FALSE, hundredths |-> round2(e[1], e[2])]

ResultColumns == {"Start Date", "End Date", "Duration", "PTO Cost", "Efficiency",
                  "Bridge Opportunity", "Month"}

\* A data frame of results: its columns and its rows.  pd.DataFrame([]) has
\* neither.
get_global_rankings(df, pto_limit) ==
    LET results == OuterLoop(df, 1, pto_limit, <<>>)
    IN  IF results = <<>> THEN [columns |-> {}, rows |-> <<>>]
        ELSE LET sorted == sort_values(results)
             IN  [columns |-> ResultColumns \cup {"Efficiency Display"},
                  rows |-> [k \in 1..Len(sorted) |->
                               sorted[k] @@ ("Efficiency Display" :>
                                   efficiency_display(sorted[k]["Efficiency"]))]]

\* DataFrame.empty
empty(frame) == frame.rows = <<>> \/ frame.columns = {}

\* options[options["Bridge Opportunity"]]: the rows the mask keeps, under the
\* same columns.
BridgeRows(frame) ==
    [columns |-> frame.columns,
     rows |-> SelectSeq(frame.rows, LAMBDA w : w["Bridge Opportunity"])]

\* options[(options["Month"] == search_month) & (options["PTO Cost"] <= search_pto)
\*         & (options["Duration"] >= min_days)]
SearchMatches(frame, search_month, search_pto, min_days) ==
    [columns |-> frame.columns,
     rows |-> SelectSeq(frame.rows, LAMBDA w : /\ w["Month"] = search_month
                                               /\ w["PTO Cost"] <= search_pto
                                               /\ w["Duration"] >= min_days)]

-----------------------------------------------------------------------------
(* The script, section by section. *)

NoFrame == [columns |-> {}, rows |-> <<>>]

\* Values the personalized search's number inputs are given.
SearchPto == {0, 1}

MinDays == {1, 4}

\* sorted(options["Month"].unique()) if not options.empty else []
MonthOptions(frame) ==
    IF empty(frame) THEN {} ELSE {frame.rows[k]["Month"] : k \in 1..Len(frame.rows)}

Init ==
    /\ pc = "sidebar"
    /\ rows \in RawRows
    /\ include_rh = TRUE
    /\ annual_pto = 0
    /\ data = <<>>
    /\ options = NoFrame
    /\ bridges = NoFrame
    /\ matches = NoFrame
    /\ names = {}
    /\ err = "none"
    /\ messages = <<>>

\* The sidebar widgets.
Sidebar ==
    /\ pc = "sidebar"
    /\ include_rh' \in BOOLEAN
    /\ annual_pto' \in 0..MaxBudget
    /\ names' = names \cup {"include_rh", "year", "annual_pto"}
    /\ pc' = "exists"
    /\ UNCHANGED <<rows, data, options, bridges, matches, err, messages>>

\* if not os.path.exists(csv_file): st.error(...); st.stop()
CheckDataset ==
    /\ pc = "exists"
    /\ \E exists \in BOOLEAN :
         IF exists
         THEN /\ pc' = "load"
              /\ UNCHANGED messages
         ELSE /\ pc' = "stopped"
              /\ messages' = Append(messages, "error: Holiday data not found.")
    /\ names' = names \cup {"csv_file"}
    /\ UNCHANGED <<rows, include_rh, annual_pto, data, options, bridges, matches, err>>

\* data = load_and_process_data(csv_file, include_rh); a CSV without rows has
\* no minimum date and pd.date_range raises on it.
LoadData ==
    /\ pc = "load"
    /\ IF rows = <<>>
       THEN /\ err' = "ValueError"
            /\ pc' = "error"
            /\ UNCHANGED <<data, names>>
       ELSE /\ data' = load_and_process_data(rows, include_rh)
            /\ names' = names \cup {"data"}
            /\ pc' = "rank"
            /\ UNCHANGED err
    /\ UNCHANGED <<rows, include_rh, annual_pto, options, bridges, matches, messages>>

\* options = get_global_rankings(data, annual_pto)
Rank ==
    /\ pc = "rank"
    /\ options' = get_global_rankings(data, annual_pto)
    /\ names' = names \cup {"options"}
    /\ pc' = "global"
    /\ UNCHANGED <<rows, include_rh, annual_pto, data, bridges, matches, err, messages>>

\* The "Best Holiday Combinations" section.
GlobalResults ==
    /\ pc = "global"
    /\ IF ~empty(options)
       THEN /\ names' = names \cup {"best"}
            /\ messages' = Append(messages, "success: Best Overall Recommendation")
       ELSE /\ messages' = Append(messages, "warning: No valid combinations found.")
            /\ UNCHANGED names
    /\ pc' = "bridge"
    /\ UNCHANGED <<rows, include_rh, annual_pto, data, options, bridges, matches, err>>

\* The "Best Bridge Day Opportunities" section; options["Bridge Opportunity"]
\* raises KeyError on a frame without that column.
BridgeSection ==
    /\ pc = "bridge"
    /\ IF "Bridge Opportunity" \notin options.columns
       THEN /\ err' = "KeyError"
            /\ pc' = "error"
            /\ UNCHANGED <<bridges, names, messages>>
       ELSE /\ bridges' = BridgeRows(options)
            /\ names' = names \cup {"bridges"}
            /\ messages' = Append(messages,
                   IF ~empty(bridges')
                   THEN "info: These require only 1 PTO to unlock long breaks."
                   ELSE "write: No bridge opportunities found under current settings.")
            /\ pc' = "search"
            /\ UNCHANGED err
    /\ UNCHANGED <<rows, include_rh, annual_pto, data, options, matches>>

\* The "Personalized Vacation Search" section.
PersonalizedSearch ==
    /\ pc = "search"
    /\ \E pressed \in BOOLEAN, search_pto \in SearchPto, min_days \in MinDays,
          search_month \in (IF empty(options) THEN {"None"} ELSE MonthOptions(options)) :
         IF ~pressed
         THEN /\ pc' = "tab1"
              /\ names' = names \cup {"search_pto", "min_days", "search_month"}
              /\ UNCHANGED <<matches, err, messages>>
         ELSE IF "Month" \notin options.columns
         THEN /\ err' = "KeyError"
              /\ pc' = "error"
              /\ names' = names \cup {"search_pto", "min_days", "search_month"}
              /\ UNCHANGED <<matches, messages>>
         ELSE /\ matches' = SearchMatches(options, search_month, search_pto, min_days)
              /\ names' = names \cup {"search_pto", "min_days", "search_month", "matches"}
              /\ messages' = Append(messages,
                     IF ~empty(matches')
                     THEN "success: Matching combinations found"
                     ELSE "error: No matching combinations.")
              /\ pc' = "tab1"
              /\ UNCHANGED err
    /\ UNCHANGED <<rows, include_rh, annual_pto, data, options, bridges>>

\* The "Efficiency Map" tab.
EfficiencyMap ==
    /\ pc = "tab1"
    /\ IF ~empty(options)
       THEN /\ bridges' = BridgeRows(options)
            /\ names' = names \cup {"fig", "ax", "bridges", "others"}
            /\ UNCHANGED messages
       ELSE /\ messages' = Append(messages, "info: No data available for plotting.")
            /\ UNCHANGED <<bridges, names>>
    /\ pc' = "tab2"
    /\ UNCHANGED <<rows, include_rh, annual_pto, data, options, matches, err>>

\* The "Timeline View" tab: plot_df = top10.rename(...) reads top10, which is
\* assigned only further down, inside the with-block.
TimelineView ==
    /\ pc = "tab2"
    /\ IF "top10" \notin names
       THEN /\ err' = "NameError"
            /\ pc' = "error"
            /\ UNCHANGED <<names, messages>>
       ELSE /\ IF ~empty(options)
               THEN /\ names' = names \cup {"plot_df", "top10", "fig", "ax"}
                    /\ UNCHANGED messages
               ELSE /\ names' = names \cup {"plot_df"}
                    /\ messages' = Append(messages, "info: No data available for timeline view.")
            /\ pc' = "done"
            /\ UNCHANGED err
    /\ UNCHANGED <<rows, include_rh, annual_pto, data, options, bridges, matches>>

\* A widget interaction after the run has ended runs the script again from the
\* top: a fresh namespace and page, the same files and widget values.
Rerun ==
    /\ pc \in {"done", "stopped", "error"}
    /\ pc' = "sidebar"
    /\ data' = <<>>
    /\ options' = NoFrame
    /\ bridges' = NoFrame
    /\ matches' = NoFrame
    /\ names' = {}
    /\ err' = "none"
    /\ messages' = <<>>
    /\ UNCHANGED <<rows, include_rh, annual_pto>>

Next ==
    \/ Sidebar
    \/ CheckDataset
    \/ LoadData
    \/ Rank
    \/ GlobalResults
    \/ BridgeSection
    \/ PersonalizedSearch
    \/ EfficiencyMap
    \/ TimelineView
    \/ Rerun

Spec == Init /\ [][Next]_vars

-----------------------------------------------------------------------------
(* Properties. *)

\* The run has computed options from data.
Ranked == "options" \in names

\* get_global_rankings(data, annual_pto) has just returned options.
Returned == pc = "global"

\* The run has computed data from the CSV.
Loaded == "data" \in names

Windows == {options.rows[k] : k \in 1..Len(options.rows)}

\* Some row of the calendar with date d is a free day.
DayIsFree(d) == \E m \in 1..Len(data) : data[m].date = d /\ data[m].is_free

\* What identifies a window: start date, end date, duration and PTO cost.
Identity(w) == <<w["Start Date"], w["End Date"], w["Duration"], w["PTO Cost"]>>

IdentitySet(frame) == {Identity(frame.rows[k]) : k \in 1..Len(frame.rows)}

\* C1: every window returned for budget annual_pto costs at most annual_pto
\* PTO days and starts and ends on a free day; budget 0 returns only windows
\* of PTO cost 0.
C1_WithinBudgetFreeEndpoints ==
    Returned =>
        \A w \in Windows :
            /\ w["PTO Cost"] <= annual_pto
            /\ DayIsFree(w["Start Date"])
            /\ DayIsFree(w["End Date"])
            /\ annual_pto = 0 => w["PTO Cost"] = 0

\* A window that uses the whole of a positive budget is returned while a
\* longer range of the calendar costs more than the budget.
C1_Witness ==
    /\ Returned
    /\ annual_pto > 0
    /\ \E w \in Windows : w["PTO Cost"] = annual_pto
    /\ pto_needed(data, 1, Len(data)) > annual_pto

\* C2: every window returned for a budget B < annual_pto is also returned
\* for annual_pto.
C2_MonotoneInBudget ==
    Returned =>
        \A B \in 0..(annual_pto - 1) :
            IdentitySet(get_global_rankings(data, B)) \subseteq IdentitySet(options)

\* The smaller budget returns some windows and the larger one strictly more.
C2_Witness ==
    /\ Returned
    /\ annual_pto > 0
    /\ IdentitySet(get_global_rankings(data, annual_pto - 1)) # {}
    /\ IdentitySet(get_global_rankings(data, annual_pto - 1)) # IdentitySet(options)

\* C3: the returned rows are in descending order of efficiency and, at equal
\* efficiency, of duration; every window of PTO cost 0 precedes every window
\* of positive PTO cost, and of two windows of PTO cost 0 the longer comes first.
C3_RankingOrder ==
    Returned =>
        LET r == options.rows
        IN  /\ \A k \in 1..(Len(r) - 1) :
                 \/ EffGreater(r[k]["Efficiency"], r[k + 1]["Efficiency"])
                 \/ /\ EffEqual(r[k]["Efficiency"], r[k + 1]["Efficiency"])
                    /\ r[k]["Duration"] >= r[k + 1]["Duration"]
            /\ \A k, l \in 1..Len(r) :
                 /\ r[k]["PTO Cost"] = 0 /\ r[l]["PTO Cost"] > 0 => k < l
                 /\ r[k]["PTO Cost"] = 0 /\ r[l]["PTO Cost"] = 0
                      /\ r[k]["Duration"] > r[l]["Duration"] => k < l

\* The result holds a window of PTO cost 0, windows of positive cost with
\* different efficiencies, two windows of the same efficiency and different
\* durations, and the enumeration order of the windows is not the ranked order.
C3_Witness ==
    /\ Returned
    /\ \E w \in Windows : w["PTO Cost"] = 0
    /\ \E v, w \in Windows :
         /\ v["PTO Cost"] > 0 /\ w["PTO Cost"] > 0
         /\ EffGreater(v["Efficiency"], w["Efficiency"])
    /\ \E v, w \in Windows :
         /\ EffEqual(v["Efficiency"], w["Efficiency"])
         /\ v["Duration"] # w["Duration"]
    /\ [k \in 1..Len(options.rows) |-> Identity(options.rows[k])]
         # [k \in 1..Len(options.rows) |->
                Identity(OuterLoop(data, 1, annual_pto, <<>>)[k])]

\* Every day of the calendar is free.
AllFree == data # <<>> /\ \A k \in 1..Len(data) : data[k].is_free

\* The window spanning the whole calendar, at no PTO cost.
IsMaximalWindow(w) ==
    /\ w["Start Date"] = data[1].date
    /\ w["End Date"] = data[Len(data)].date
    /\ w["Duration"] = Len(data)
    /\ w["PTO Cost"] = 0
    /\ EffIsInf(w["Efficiency"])

\* C4 as stated: on a calendar of free days only, exactly one window is
\* returned, the one spanning the whole range at PTO cost 0.
C4_ExactlyOneMaximalWindow ==
    Returned /\ AllFree =>
        /\ Len(options.rows) = 1
        /\ IsMaximalWindow(options.rows[1])

\* C4 amended: on a calendar of free days only, one window is returned for
\* every pair of days i < j other than a two-day pair without a holiday; all
\* of them have PTO cost 0 and infinite efficiency, and a non-empty result,
\* which three days or more always give, starts with the window spanning the
\* whole range.
C4_MaximalWindowRankedFirst ==
    Returned /\ AllFree =>
        /\ \A w \in Windows : w["PTO Cost"] = 0 /\ EffIsInf(w["Efficiency"])
        /\ Len(options.rows) =
             Cardinality({p \in (1..Len(data)) \X (1..Len(data)) :
                            /\ p[1] < p[2]
                            /\ (p[2] - p[1] + 1 > 2 \/ holiday_sum(data, p[1], p[2]) > 0)})
        /\ Len(data) >= 3 => ~empty(options)
        /\ ~empty(options) => IsMaximalWindow(options.rows[1])

\* Three free days or more, and more than one window returned.
C4_Witness ==
    /\ Returned
    /\ AllFree
    /\ Len(data) >= 3
    /\ Len(options.rows) >= 2

\* C5: the calendar has one row per date of [min date, max date], ascending,
\* whatever the CSV's rows, duplicate dates included.
C5_OneRowPerDate ==
    Loaded =>
        /\ Len(data) = SeqMax(rows) - SeqMin(rows) + 1
        /\ \A k \in 1..Len(data) : data[k].date = SeqMin(rows) + k - 1

\* C6: a run whose ranking is empty reports it and raises nothing in any
\* later section.
C6_EmptyResultNoError ==
    Ranked /\ empty(options) =>
        /\ err = "none"
        /\ pc # "global" =>
             \E k \in 1..Len(messages) : messages[k] = "warning: No valid combinations found."

\* The holiday rows of the calendar whose date lies in [lo, hi].
HolidaysWithin(lo, hi) ==
    {m \in 1..Len(data) : data[m].date \in lo..hi /\ data[m].is_holiday}

\* The calendar is one Saturday-Sunday pair without a holiday.
PlainWeekendPair ==
    /\ Len(data) = 2
    /\ weekday(data[1].date) = 5 /\ weekday(data[2].date) = 6
    /\ ~data[1].is_holiday /\ ~data[2].is_holiday

\* C7: no returned window has duration 1; none has duration <= 2, PTO cost 0
\* and no holiday inside; two adjacent free days with a holiday among them are
\* returned as a window of duration 2; a lone Saturday-Sunday pair without a
\* holiday gives an empty result at budget 0.
C7_DegenerateWindows ==
    Returned =>
        /\ \A w \in Windows : w["Duration"] # 1
        /\ \A w \in Windows :
             ~ /\ w["Duration"] <= 2
               /\ w["PTO Cost"] = 0
               /\ HolidaysWithin(w["Start Date"], w["End Date"]) = {}
        /\ \A k \in 1..(Len(data) - 1) :
             /\ data[k].is_free /\ data[k + 1].is_free
             /\ data[k].is_holiday \/ data[k + 1].is_holiday
             => <<data[k].date, data[k + 1].date, 2, 0>> \in IdentitySet(options)
        /\ PlainWeekendPair /\ annual_pto = 0 => empty(options)

\* A holiday next to a plain weekend: the two-day window with the holiday is
\* returned, the plain Saturday-Sunday window is not.
C7_Witness ==
    /\ Returned
    /\ \E w \in Windows : w["Duration"] = 2 /\ w["PTO Cost"] = 0
    /\ \E k \in 1..(Len(data) - 1) :
         /\ data[k].is_free /\ data[k + 1].is_free
         /\ ~data[k].is_holiday /\ ~data[k + 1].is_holiday

\* The dates of [lo, hi] on which some row of the calendar is not free.
NonFreeDates(lo, hi) ==
    {d \in lo..hi : \E m \in 1..Len(data) : data[m].date = d /\ ~data[m].is_free}

\* C8: of every returned window, PTO cost is the number of non-free days of
\* [start, end], duration is the number of days of [start, end], and the
\* bridge flag is set exactly when PTO cost is 1 and duration is at least 4.
C8_WindowFields ==
    Returned =>
        \A w \in Windows :
            /\ w["PTO Cost"] = Cardinality(NonFreeDates(w["Start Date"], w["End Date"]))
            /\ w["Duration"] = w["End Date"] - w["Start Date"] + 1
            /\ w["Bridge Opportunity"] <=> (w["PTO Cost"] = 1 /\ w["Duration"] >= 4)

\* The windows of the enumeration without the break: every pair i < j of free
\* days within the budget that is not a plain two-day weekend.
FullEnumeration ==
    {Identity(WindowRecord(data, p[1], p[2])) :
        p \in {q \in (1..Len(data)) \X (1..Len(data)) :
                 /\ q[1] < q[2]
                 /\ data[q[1]].is_free /\ data[q[2]].is_free
                 /\ pto_needed(data, q[1], q[2]) <= annual_pto
                 /\ ~ /\ q[2] - q[1] + 1 <= 2
                      /\ pto_needed(data, q[1], q[2]) = 0
                      /\ holiday_sum(data, q[1], q[2]) = 0}}

\* C9: the windows returned are those of the enumeration without the break,
\* and the leave cost of [i, j] does not decrease as j grows.
C9_EarlyTerminationSound ==
    Returned =>
        /\ IdentitySet(options) = FullEnumeration
        /\ \A i, j \in 1..Len(data) :
             i <= j /\ j < Len(data) =>
                 pto_needed(data, i, j) <= pto_needed(data, i, j + 1)

\* The break fires for some free start day before the end of the calendar,
\* with a free day still ahead, and windows are returned.
C9_Witness ==
    /\ Returned
    /\ ~empty(options)
    /\ \E i, j, l \in 1..Len(data) :
         /\ i < j /\ j < l
         /\ data[i].is_free /\ data[l].is_free
         /\ pto_needed(data, i, j) > annual_pto

\* C10: a run with a non-empty ranking assigns every name before reading it
\* and ends without an unassigned-name error.
C10_NamesAssignedBeforeRead ==
    Ranked /\ ~empty(options) => err # "NameError"

=============================================================================
